---- MODULE Spec2Model ----
(***************************************************************************)
(* Media ingestion and catalog pipeline.                                    *)
(*                                                                          *)
(* Serverless variant (src/api/webhook.js, src/api/delete.js,               *)
(* src/api/history.js): handler invocations run concurrently and share the  *)
(* Redis list 'media_history' (catalog) and the blob store (blobs).  Every  *)
(* await of a handler is one step; the outcome of each external call        *)
(* (Telegram, blob store, Redis) is chosen nondeterministically.            *)
(*                                                                          *)
(* Directory-watching variant (src/unnamed/part_000): the gallery           *)
(* directory is both content store and catalog.                             *)
(***************************************************************************)
EXTENDS Integers, Sequences, FiniteSets, TLC

\* ------------------------------------------------------------------ bounds
MaxTime == 1           \* Date.now() ranges over 0..MaxTime

\* ------------------------------------------------------- program constants
maxRetries == 3        \* downloadFileContent(fileUrl, maxRetries = 3)

\* two invocations of the writing handlers (webhook, delete) and one reader;
\* the second writer arrives while the first is running or after it is done
Writers == {1, 2}
Readers == {3}
Procs == Writers \cup Readers
\* directory variant: two bot events being saved
Savers == {1, 2}

Methods == {"POST", "GET"}
\* a declared MIME type, <<type, subtype>>; NoMime when none is declared
NoMime == <<>>
\* inbound events: no message, a text message, a document that is a PDF, a
\* document that is a PNG image, a photo sent from a chat, a video whose
\* message carries no chat id
Events ==
  {[kind |-> "none", chat |-> FALSE, file |-> "none", mime |-> NoMime],
   [kind |-> "text", chat |-> FALSE, file |-> "none", mime |-> NoMime],
   [kind |-> "document", chat |-> FALSE, file |-> "none",
    mime |-> <<"application", "pdf">>],
   [kind |-> "document", chat |-> TRUE, file |-> "c.png",
    mime |-> <<"image", "png">>],
   [kind |-> "photo", chat |-> TRUE, file |-> "a.jpg", mime |-> NoMime],
   [kind |-> "video", chat |-> FALSE, file |-> "b.mp4", mime |-> NoMime]}
Auths == {"none", "wrong", "right"}

Absent == -1
NoUrl == <<>>
NoName == <<>>
GoneUrl == <<-9, "a.jpg">>     \* a locator no record ever had

\* ------------------------------------------------------------ pure helpers
RECURSIVE Reverse(_)
Reverse(s) == IF s = <<>> THEN <<>> ELSE Reverse(Tail(s)) \o <<Head(s)>>

RECURSIVE SelectSeqBy(_, _)
\* Array.prototype.filter with the predicate given as the set of kept items
SelectSeqBy(s, keep) ==
  IF s = <<>> THEN <<>>
  ELSE (IF Head(s) \in keep THEN <<Head(s)>> ELSE <<>>) \o SelectSeqBy(Tail(s), keep)

Range(s) == {s[i] : i \in 1..Len(s)}

\* JSON.stringify(mediaEntry): the stored list item
Stringify(e) == [raw |-> "json", val |-> e]
NoEntry == [url |-> NoUrl, filename |-> NoName, type |-> "none", timestamp |-> Absent]
\* JSON.parse succeeds
Parses(item) == item.raw = "json"
\* typeof item === 'string' ? JSON.parse(item) : item
Parse(item) == item.val

\* (mutant) every item is pushed twice, as by a blind retry of the command
RECURSIVE RedisLPushTwice(_, _)
RedisLPushTwice(list, items) ==
  IF items = <<>> THEN list
  ELSE RedisLPushTwice(<<Head(items), Head(items)>> \o list, Tail(items))

\* redis.lpush(key, ...items): items are pushed one by one onto the head
RECURSIVE RedisLPush(_, _)
RedisLPush(list, items) ==
  IF items = <<>> THEN list
  ELSE RedisLPush(<<Head(items)>> \o list, Tail(items))

\* put(uniqueName, ...) -> blob.url: the store addresses the object by name
BlobUrl(name) == name

\* mediaEntry of webhook.js
MediaEntry(url, name, isPhoto, ts) ==
  [url |-> url, filename |-> name,
   type |-> IF isPhoto THEN "image" ELSE "video", timestamp |-> ts]

\* history.js: map(parse) then filter(item !== null)
RECURSIVE ParsedHistory(_)
ParsedHistory(h) ==
  IF h = <<>> THEN <<>>
  ELSE (IF Parses(Head(h)) THEN <<Parse(Head(h))>> ELSE <<>>) \o ParsedHistory(Tail(h))

\* delete.js: history.filter(item => parsed.url !== url), corrupted dropped
UpdatedHistory(h, url) ==
  SelectSeqBy(h, {it \in Range(h) : Parses(it) /\ Parse(it).url # url})

\* ------------------------------------------------------------- responses
\* the counts of a stats body (history.js lines 111-117); absent elsewhere
Counts(total, images, videos) ==
  [totalFiles |-> total, images |-> images, videos |-> videos]
NoCounts == Counts(Absent, Absent, Absent)

Response(status, success, url, removed, remaining, items) ==
  [status |-> status, success |-> success, url |-> url, removed |-> removed,
   remaining |-> remaining, items |-> items, stats |-> NoCounts]
\* no response was written
NoResp == Response(0, "absent", NoUrl, Absent, Absent, <<>>)
\* a response whose body carries none of the fields above
Plain(status) == Response(status, "absent", NoUrl, Absent, Absent, <<>>)

Request(method, kind, chat, file, url, auth) ==
  [method |-> method, kind |-> kind, chat |-> chat, file |-> file,
   url |-> url, auth |-> auth, mime |-> NoMime]
NoReq == Request("none", "none", FALSE, "none", NoUrl, "none")

\* directory variant: one call of saveTelegramFile
NotSaving ==
  [pc |-> "idle",            \* position in saveTelegramFile
   prefix |-> "none",        \* 'img' or 'vid'
   fileName |-> NoName,      \* `${prefix}_${Date.now()}${ext}`
   status |-> 0,             \* HTTP status of the download response
   replied |-> 0,            \* "synced to gallery" messages sent
   outcome |-> "none"]       \* how the call ended

\* the frame of one handler invocation
Idle ==
  [pc |-> "idle",            \* position in the handler
   op |-> "none",            \* which handler
   req |-> NoReq,            \* the request
   statusMsgId |-> 0,        \* webhook: 0 = null, 1 = id of the status message
   attempt |-> 0,            \* webhook: downloadFileContent loop counter
   lastError |-> "none",     \* webhook: lastError of downloadFileContent
   waits |-> <<>>,           \* webhook: delays slept between attempts, in ms
   waitsCapped |-> <<>>,     \* the same under the policy of part_001
   lastCause |-> "none",     \* cause of the latest failed download attempt
   fetched |-> 0,            \* download attempts that returned a response
   error |-> "none",         \* webhook: the error caught at line 138
   uniqueName |-> NoName,    \* webhook: name of the uploaded object
   blobUrl |-> NoUrl,        \* webhook: blob.url returned by put
   mediaEntry |-> NoEntry,   \* webhook: record built after put
   history |-> <<>>,         \* delete: result of lrange
   total |-> 0,              \* stats: result of llen
   startCat |-> <<>>,        \* the catalog when the request arrived
   resp |-> NoResp,          \* the response sent
   failedAt |-> "none",      \* the latest step that failed
   metaCalls |-> 0,          \* getTelegramFile calls made
   stored |-> 0,             \* objects written to the blob store
   appended |-> 0,           \* records pushed as a new catalog entry
   sent |-> 0,               \* delivered sendMessage calls
   writes |-> 0,             \* catalog write commands issued (del, lpush)
   blobDels |-> 0,           \* content-store delete calls issued
   emitted |-> <<>>,         \* 'media-deleted' events emitted, by key
   midDelete |-> FALSE]      \* webhook: the record was pushed between the
                             \* lrange and the del of a running deletion

\* ------------------------------------------------------------------- state
VARIABLES
  catalog,      \* Redis list 'media_history', head first
  blobs,        \* urls of the objects in the blob store
  now,          \* Date.now()
  run,          \* the handler invocations, one frame per slot
  overlap,      \* the second writer arrived while the first was running
  gallery,      \* directory variant: files of GALLERY_DIR, name -> file
  save          \* directory variant: the saveTelegramFile calls in flight

vars == <<catalog, blobs, now, run, overlap, gallery, save>>
serverless == <<catalog, blobs, run, overlap>>

\* ------------------------------------------------------- initial catalogs
Old0 == Stringify(MediaEntry(<<-3, "b.mp4">>, <<-3, "b.mp4">>, FALSE, -3))
Old1 == Stringify(MediaEntry(<<-2, "a.jpg">>, <<-2, "a.jpg">>, TRUE, -2))
Old2 == Stringify(MediaEntry(<<-1, "b.mp4">>, <<-1, "b.mp4">>, FALSE, -1))
InitCatalogs == {<<Old1>>, <<Old2, Old1, Old0>>}

Init ==
  /\ catalog \in InitCatalogs
  /\ blobs = {Parse(catalog[i]).url : i \in 1..Len(catalog)}
  /\ now = 0
  /\ run = [p \in Procs |-> Idle]
  /\ overlap = FALSE
  /\ gallery = <<>>
  /\ save = [p \in Savers |-> NotSaving]

\* a list item on which JSON.parse, or the read of parsed.url, throws
Corrupt == [raw |-> "garbage", val |-> NoEntry]

\* a catalog into which another client of the Redis key has written such an
\* item
InitCorrupt ==
  /\ catalog = <<Old2, Corrupt, Old1>>
  /\ blobs = {Parse(Old2).url, Parse(Old1).url}
  /\ now = 0
  /\ run = [p \in Procs |-> Idle]
  /\ overlap = FALSE
  /\ gallery = <<>>
  /\ save = [p \in Savers |-> NotSaving]

\* ------------------------------------------------ start of an invocation
Running(q) == run[q].pc \notin {"idle", "done"}
Matches(cat, url) ==
  Cardinality({i \in 1..Len(cat) : Parses(cat[i]) /\ Parse(cat[i]).url = url})
Clean(cat) == \A i \in 1..Len(cat) : Parses(cat[i])

\* a writing request arrives: it takes the lowest slot not yet used
Begin(p) ==
  /\ run[p].pc = "idle"
  /\ \A q \in Writers : q < p => run[q].pc # "idle"
  /\ overlap' = (overlap \/ \E q \in Writers \ {p} : Running(q))

\* no other writer has run since p's request arrived
Alone(p) ==
  /\ run[p].pc # "idle"
  /\ \A q \in Writers \ {p} : run[q].pc = "idle" \/ (q < p /\ ~overlap)

\* q's run ended before p's request arrived, and p is the latest writer
After(q, p) == q < p /\ run[p].pc # "idle" /\ ~overlap

\* the handlers of the serverless variant do not touch the gallery directory
Set(p, s) ==
  /\ run' = [run EXCEPT ![p] = s]
  /\ UNCHANGED <<gallery, save>>

\* the response is written and the frame is dropped
Done(s, r) ==
  [s EXCEPT !.pc = "done", !.resp = r, !.statusMsgId = 0, !.attempt = 0,
            !.lastError = "none", !.lastCause = "none", !.fetched = 0,
            !.waits = <<>>, !.waitsCapped = <<>>,
            !.error = "none",
            !.uniqueName = NoName, !.blobUrl = NoUrl, !.mediaEntry = NoEntry,
            !.history = <<>>, !.total = 0]

\* the clock is read at lines 107 and 118 only: time passes while a call
\* whose return is followed by one of these reads is pending
Tick ==
  /\ now < MaxTime
  /\ \/ \E p \in Writers : run[p].op = "webhook"
                             /\ run[p].pc \in {"download", "edit2", "put"}
     \/ \E p \in Savers : save[p].pc \in {"getFile", "request", "stream"}
  /\ now' = now + 1
  /\ UNCHANGED <<catalog, blobs, run, overlap, gallery, save>>

\* ------------------------------------------------- webhook.js: handler
\* line 136: res.status(200).json({ success: true, url })
Success(url) == Response(200, "true", url, Absent, Absent, <<>>)
\* line 156: res.status(200).json({ success: false, error })
Failure == Response(200, "false", NoUrl, Absent, Absent, <<>>)

\* (mutant) every message is taken for media
IsPhotoOrVideoAny(e) == e.kind # "none"

\* lines 56-60: isPhoto || isVideo
IsPhotoOrVideo(e) == e.kind \in {"photo", "video"}

\* lines 49-60: method check, message check, photo / video check
WStart(p) ==
  \E m \in Methods, e \in Events :
    /\ m # "POST" => e.kind = "none"
    /\ Begin(p)
    /\ LET s == [Idle EXCEPT !.op = "webhook", !.startCat = catalog,
                             !.req = [Request(m, e.kind, e.chat, e.file, NoUrl, "none")
                                        EXCEPT !.mime = e.mime]]
       IN IF m # "POST" THEN Set(p, Done(s, Plain(405)))
          ELSE IF e.kind = "none" THEN Set(p, Done(s, Plain(200)))
          ELSE IF ~IsPhotoOrVideo(e) THEN Set(p, Done(s, Plain(200)))
          ELSE Set(p, [s EXCEPT !.pc = "sendStatus"])
    /\ UNCHANGED <<catalog, blobs, now>>

\* webhook.js lines 62-76: initial status message; out = "ok": delivered and id read,
\* "noid": delivered but no result.message_id could be read, "fail": not
\* delivered (the call threw or the transport refused it)
WSendStatus(p) ==
  /\ run[p].op = "webhook" /\ run[p].pc = "sendStatus"
  /\ \E out \in {"ok", "noid", "fail"} :
       /\ out # "fail" => run[p].req.chat
       /\ Set(p, [run[p] EXCEPT !.pc = "getFile",
                                !.statusMsgId = IF out = "ok" THEN 1 ELSE 0,
                                !.sent = @ + (IF out # "fail" THEN 1 ELSE 0)])
  /\ UNCHANGED <<catalog, blobs, now, overlap>>

\* the catch block is entered with the failing step recorded
Throw(s, step) == [s EXCEPT !.pc = "catch", !.failedAt = step, !.error = step]

\* (mutant) the object name is the time alone
ToPutTimeOnly(s) == [s EXCEPT !.pc = "put", !.uniqueName = <<now, "media">>]

\* lines 106-107: uniqueName = `${Date.now()}-${basename}` before put
ToPut(s) == [s EXCEPT !.pc = "put", !.uniqueName = <<now, s.req.file>>]

\* (mutant) a failed getFile call is repeated once before the run fails
WGetFileRetry(p) ==
  /\ run[p].op = "webhook" /\ run[p].pc = "getFile"
  /\ \E ok \in BOOLEAN :
       LET s == [run[p] EXCEPT !.metaCalls = @ + 1]
       IN IF ~ok /\ s.metaCalls < 2 THEN Set(p, s)
          ELSE IF ~ok THEN Set(p, Throw(s, "meta"))
          ELSE IF s.statusMsgId # 0 THEN Set(p, [s EXCEPT !.pc = "edit1"])
          ELSE Set(p, [s EXCEPT !.pc = "download", !.attempt = 1])
  /\ UNCHANGED <<catalog, blobs, now, overlap>>

\* lines 78-81, getTelegramFile lines 25-31: one call, no retry
WGetFile(p) ==
  /\ run[p].op = "webhook" /\ run[p].pc = "getFile"
  /\ \E ok \in BOOLEAN :
       LET s == [run[p] EXCEPT !.metaCalls = @ + 1]
       IN IF ~ok THEN Set(p, Throw(s, "meta"))
          ELSE IF s.statusMsgId # 0 THEN Set(p, [s EXCEPT !.pc = "edit1"])
          ELSE Set(p, [s EXCEPT !.pc = "download", !.attempt = 1])
  /\ UNCHANGED <<catalog, blobs, now, overlap>>

\* lines 84-91: editMessageText "Step 2/4: Downloading"
WEdit1(p) ==
  /\ run[p].op = "webhook" /\ run[p].pc = "edit1"
  /\ \E ok \in BOOLEAN :
       IF ~ok THEN Set(p, Throw(run[p], "notify"))
       ELSE Set(p, [run[p] EXCEPT !.pc = "download", !.attempt = 1])
  /\ UNCHANGED <<catalog, blobs, now, overlap>>

\* why one download attempt fails: fetch rejects, or line 39 throws on a
\* response that is not ok
Causes == {"network", "status"}

RECURSIVE Pow2(_)
\* Math.pow(2, n)
Pow2(n) == IF n = 0 THEN 1 ELSE 2 * Pow2(n - 1)
\* Math.min(a, b)
Min(a, b) == IF a <= b THEN a ELSE b

\* (mutant) a delay of three seconds per attempt made
DelaySteep(attempt) == 3000 * attempt

\* webhook.js line 43: setTimeout(r, 1000 * attempt)
Delay(attempt) == 1000 * attempt

\* part_001 line 235: Math.min(1000 * Math.pow(2, attempt), 5000)
CappedDelay(attempt) == Min(1000 * Pow2(attempt), 5000)

\* line 43 (part_001 lines 233-238): the sleep before the next attempt
Sleep(s) == [s EXCEPT !.attempt = @ + 1,
                      !.waits = Append(@, Delay(s.attempt)),
                      !.waitsCapped = Append(@, CappedDelay(s.attempt))]

\* (mutant) lastError keeps the error of the first failed attempt
WDownloadFirstError(p) ==
  /\ run[p].op = "webhook" /\ run[p].pc = "download"
  /\ \E out \in {"ok"} \cup Causes :
       IF out = "ok"
       THEN LET s == [run[p] EXCEPT !.fetched = @ + 1]
            IN IF s.statusMsgId # 0
               THEN Set(p, [s EXCEPT !.pc = "edit2"])
               ELSE Set(p, ToPut(s))
       ELSE LET s == [run[p] EXCEPT !.lastCause = out,
                        !.lastError = IF @ = "none" THEN out ELSE @]
            IN IF s.attempt < maxRetries
               THEN Set(p, Sleep(s))
               ELSE Set(p, [Throw(s, "download") EXCEPT !.error = s.lastError])
  /\ UNCHANGED <<catalog, blobs, now, overlap>>

\* lines 34-47 and 94: one attempt of downloadFileContent; a failed attempt
\* stores its error in lastError, and the last one throws lastError
WDownload(p) ==
  /\ run[p].op = "webhook" /\ run[p].pc = "download"
  /\ \E out \in {"ok"} \cup Causes :
       IF out = "ok"
       THEN LET s == [run[p] EXCEPT !.fetched = @ + 1]
            IN IF s.statusMsgId # 0
               THEN Set(p, [s EXCEPT !.pc = "edit2"])
               ELSE Set(p, ToPut(s))
       ELSE LET s == [run[p] EXCEPT !.lastCause = out, !.lastError = out]
            IN IF s.attempt < maxRetries
               THEN Set(p, Sleep(s))
               ELSE Set(p, [Throw(s, "download") EXCEPT !.error = s.lastError])
  /\ UNCHANGED <<catalog, blobs, now, overlap>>

\* lines 97-104: editMessageText "Step 3/4: Uploading"
WEdit2(p) ==
  /\ run[p].op = "webhook" /\ run[p].pc = "edit2"
  /\ \E ok \in BOOLEAN :
       IF ~ok THEN Set(p, Throw(run[p], "notify"))
       ELSE Set(p, ToPut(run[p]))
  /\ UNCHANGED <<catalog, blobs, now, overlap>>

\* (mutant) the record is pushed whether or not the put succeeded
WPutThenAppendAnyway(p) ==
  /\ run[p].op = "webhook" /\ run[p].pc = "put"
  /\ \E ok \in BOOLEAN :
       LET entry == MediaEntry(BlobUrl(run[p].uniqueName), run[p].uniqueName,
                               run[p].req.kind = "photo", now)
       IN /\ catalog' = RedisLPush(catalog, <<Stringify(entry)>>)
          /\ blobs' = IF ok THEN blobs \cup {BlobUrl(run[p].uniqueName)} ELSE blobs
          /\ IF ok
             THEN Set(p, [run[p] EXCEPT !.pc = "edit3", !.appended = @ + 1,
                          !.stored = @ + 1,
                          !.blobUrl = BlobUrl(run[p].uniqueName),
                          !.mediaEntry = entry])
             ELSE Set(p, Throw([run[p] EXCEPT !.appended = @ + 1], "put"))
  /\ UNCHANGED <<now, overlap>>

\* lines 108-121: put, then the record is built with timestamp Date.now()
WPut(p) ==
  /\ run[p].op = "webhook" /\ run[p].pc = "put"
  /\ \E ok \in BOOLEAN :
       IF ok
       THEN /\ blobs' = blobs \cup {BlobUrl(run[p].uniqueName)}
            /\ Set(p, [run[p] EXCEPT !.pc = "lpush", !.stored = @ + 1,
                 !.blobUrl = BlobUrl(run[p].uniqueName),
                 !.mediaEntry = MediaEntry(BlobUrl(run[p].uniqueName),
                                           run[p].uniqueName,
                                           run[p].req.kind = "photo", now)])
       ELSE /\ Set(p, Throw(run[p], "put"))
            /\ UNCHANGED blobs
  /\ UNCHANGED <<catalog, now, overlap>>

\* line 122: redis.lpush('media_history', JSON.stringify(mediaEntry)); with
\* no status message the success response of line 136 follows at once
WLpush(p) ==
  /\ run[p].op = "webhook" /\ run[p].pc = "lpush"
  /\ \E ok \in BOOLEAN :
       IF ok
       THEN /\ catalog' = RedisLPush(catalog, <<Stringify(run[p].mediaEntry)>>)
            /\ LET s == [run[p] EXCEPT !.appended = @ + 1, !.writes = @ + 1,
                                       !.midDelete = \E q \in Writers :
                                           /\ run[q].op = "delete"
                                           /\ run[q].pc = "redisDel"]
               IN IF s.statusMsgId # 0
                  THEN Set(p, [s EXCEPT !.pc = "edit3"])
                  ELSE Set(p, Done(s, Success(s.blobUrl)))
       ELSE /\ Set(p, Throw(run[p], "append"))
            /\ UNCHANGED catalog
  /\ UNCHANGED <<blobs, now, overlap>>

\* lines 125-136: final "Upload Complete" edit, then the success response
WEdit3(p) ==
  /\ run[p].op = "webhook" /\ run[p].pc = "edit3"
  /\ \E ok \in BOOLEAN :
       IF ~ok THEN Set(p, Throw(run[p], "notify"))
       ELSE Set(p, Done(run[p], Success(run[p].blobUrl)))
  /\ UNCHANGED <<catalog, blobs, now, overlap>>

\* lines 138-157: the catch block.  With a chat id the error text is sent
\* (edit of the status message, or a new message when there is none); that
\* call is awaited outside any try, so when it throws the handler rejects
\* and no response is written.
WCatch(p) ==
  /\ run[p].op = "webhook" /\ run[p].pc = "catch"
  /\ \E ok \in BOOLEAN :
       /\ ~run[p].req.chat => ok
       /\ IF ok
          THEN Set(p, Done([run[p] EXCEPT !.sent =
                 @ + (IF run[p].req.chat /\ run[p].statusMsgId = 0 THEN 1 ELSE 0)],
                 Failure))
          ELSE Set(p, Done(run[p], NoResp))
  /\ UNCHANGED <<catalog, blobs, now, overlap>>

\* ------------------------------------------------- delete.js: handler
UrlsOf(cat) == {Parse(cat[i]).url : i \in {j \in 1..Len(cat) : Parses(cat[j])}}

\* the locators a client can have seen in a listing
KnownUrls == UrlsOf(catalog) \cup UNION {UrlsOf(run[q].startCat) : q \in Writers}

\* lines 6-24: method check, url check, then the bearer check
DStart(p) ==
  \E m \in Methods, a \in Auths, u \in {NoUrl, GoneUrl} \cup KnownUrls :
    /\ m # "POST" => (a = "none" /\ u = NoUrl)
    /\ Begin(p)
    /\ LET s == [Idle EXCEPT !.op = "delete", !.startCat = catalog,
                             !.req = Request(m, "none", FALSE, "none", u, a)]
       IN IF m # "POST" THEN Set(p, Done(s, Plain(405)))
          ELSE IF u = NoUrl THEN Set(p, Done(s, Plain(400)))
          ELSE IF a # "right" THEN Set(p, Done(s, Plain(401)))
          ELSE Set(p, [s EXCEPT !.pc = "blobDel"])
    /\ UNCHANGED <<catalog, blobs, now>>

\* (mutant) a failure of del(url) ends the request with the error response
DBlobDelAbort(p) ==
  /\ run[p].op = "delete" /\ run[p].pc = "blobDel"
  /\ \E ok \in BOOLEAN :
       IF ok
       THEN /\ blobs' = blobs \ {run[p].req.url}
            /\ Set(p, [run[p] EXCEPT !.pc = "lrange", !.blobDels = @ + 1])
       ELSE /\ UNCHANGED blobs
            /\ Set(p, Done([run[p] EXCEPT !.blobDels = @ + 1, !.failedAt = "blob"],
                           Plain(500)))
  /\ UNCHANGED <<catalog, now, overlap>>

\* lines 29-36: del(url); a failure is caught and logged, and the handler
\* goes on to the catalog
DBlobDel(p) ==
  /\ run[p].op = "delete" /\ run[p].pc = "blobDel"
  /\ \E ok \in BOOLEAN :
       /\ blobs' = IF ok THEN blobs \ {run[p].req.url} ELSE blobs
       /\ Set(p, [run[p] EXCEPT !.pc = "lrange", !.blobDels = @ + 1,
                                !.failedAt = IF ok THEN @ ELSE "blob"])
  /\ UNCHANGED <<catalog, now, overlap>>

\* lines 74-80: res.status(500)
DFail(s, step) == Done([s EXCEPT !.failedAt = step], Plain(500))

\* line 43: { success: true, message: 'Already deleted' }
AlreadyDeleted == Response(200, "true", NoUrl, Absent, Absent, <<>>)

\* lines 56 and 68-72: { success: true, removed, remaining }
Removed(h, url) ==
  Response(200, "true", NoUrl, Len(h) - Len(UpdatedHistory(h, url)),
           Len(UpdatedHistory(h, url)), <<>>)

\* lines 39-57: lrange, empty check, filter
DLrange(p) ==
  /\ run[p].op = "delete" /\ run[p].pc = "lrange"
  /\ \E ok \in BOOLEAN :
       IF ~ok THEN Set(p, DFail(run[p], "read"))
       ELSE IF Len(catalog) = 0 THEN Set(p, Done(run[p], AlreadyDeleted))
       ELSE Set(p, [run[p] EXCEPT !.pc = "redisDel", !.history = catalog])
  /\ UNCHANGED <<catalog, blobs, now, overlap>>

\* lines 59-62 (and 68-72 when nothing is left to reinsert)
DRedisDel(p) ==
  /\ run[p].op = "delete" /\ run[p].pc = "redisDel"
  /\ \E ok \in BOOLEAN :
       IF ~ok THEN Set(p, DFail(run[p], "clear")) /\ UNCHANGED catalog
       ELSE /\ catalog' = <<>>
            /\ LET s == [run[p] EXCEPT !.writes = @ + 1]
               IN IF Len(UpdatedHistory(s.history, s.req.url)) > 0
                  THEN Set(p, [s EXCEPT !.pc = "reinsert"])
                  ELSE Set(p, Done(s, Removed(s.history, s.req.url)))
  /\ UNCHANGED <<blobs, now, overlap>>

\* (mutant) the filtered list is pushed without being reversed first
DReinsertUnreversed(p) ==
  /\ run[p].op = "delete" /\ run[p].pc = "reinsert"
  /\ \E ok \in BOOLEAN :
       IF ~ok THEN Set(p, DFail(run[p], "reinsert")) /\ UNCHANGED catalog
       ELSE /\ catalog' = RedisLPush(catalog,
                            UpdatedHistory(run[p].history, run[p].req.url))
            /\ Set(p, Done([run[p] EXCEPT !.writes = @ + 1],
                           Removed(run[p].history, run[p].req.url)))
  /\ UNCHANGED <<blobs, now, overlap>>

\* lines 62-72: lpush of the reversed filtered list, then the response
DReinsert(p) ==
  /\ run[p].op = "delete" /\ run[p].pc = "reinsert"
  /\ \E ok \in BOOLEAN :
       IF ~ok THEN Set(p, DFail(run[p], "reinsert")) /\ UNCHANGED catalog
       ELSE /\ catalog' = RedisLPush(catalog,
                            Reverse(UpdatedHistory(run[p].history, run[p].req.url)))
            /\ Set(p, Done([run[p] EXCEPT !.writes = @ + 1],
                           Removed(run[p].history, run[p].req.url)))
  /\ UNCHANGED <<blobs, now, overlap>>

\* ------------------------------------------------ history.js: handler
Listing(items) == Response(200, "absent", NoUrl, Absent, Absent, items)

\* lines 5-50: one lrange; a Redis failure answers 200 with an empty array
HHistory(p) ==
  \E m \in Methods, ok \in BOOLEAN :
    /\ m # "GET" => ok
    /\ LET s == [Idle EXCEPT !.op = "history",
                             !.req = Request(m, "none", FALSE, "none", NoUrl, "none")]
       IN IF m # "GET" THEN Set(p, Done(s, Plain(405)))
          ELSE IF ~ok THEN Set(p, Done([s EXCEPT !.failedAt = "lrange"], Listing(<<>>)))
          ELSE IF Len(catalog) = 0 THEN Set(p, Done(s, Listing(<<>>)))
          ELSE Set(p, Done(s, Listing(ParsedHistory(catalog))))
    /\ UNCHANGED <<catalog, blobs, now, overlap>>

\* ------------------------------------- history.js: handler (stats)
\* lines 111-124: res.status(200).json(stats)
StatsBody(total, images, videos) ==
  [Plain(200) EXCEPT !.stats = Counts(total, images, videos)]

\* lines 77-84: the records of h whose type is ty; unparsable items are skipped
TypeCount(h, ty) ==
  Cardinality({i \in 1..Len(h) : Parses(h[i]) /\ Parse(h[i]).type = ty})

\* lines 56-73 and 126-137: method check, then llen; a failure of llen
\* answers 200 with zero counts, an empty list answers without the detail read
StLlen(p) ==
  /\ run[p].pc # "statsLrange"
  /\ \E m \in Methods, ok \in BOOLEAN :
       /\ m # "GET" => ok
       /\ LET s == [Idle EXCEPT !.op = "stats",
                                !.req = Request(m, "none", FALSE, "none", NoUrl, "none")]
          IN IF m # "GET" THEN Set(p, Done(s, Plain(405)))
             ELSE IF ~ok THEN Set(p, Done([s EXCEPT !.failedAt = "llen"],
                                          StatsBody(0, 0, 0)))
             ELSE IF Len(catalog) = 0 THEN Set(p, Done(s, StatsBody(0, 0, 0)))
             ELSE Set(p, [s EXCEPT !.pc = "statsLrange", !.total = Len(catalog)])
  /\ UNCHANGED <<catalog, blobs, now, overlap>>

\* lines 74-117: the detail read; its failure is caught (line 101) and the
\* counts stay 0 while totalFiles keeps the result of llen
StLrange(p) ==
  /\ run[p].op = "stats" /\ run[p].pc = "statsLrange"
  /\ \E ok \in BOOLEAN :
       IF ok
       THEN Set(p, Done(run[p], StatsBody(run[p].total, TypeCount(catalog, "image"),
                                          TypeCount(catalog, "video"))))
       ELSE Set(p, Done([run[p] EXCEPT !.failedAt = "lrange"],
                        StatsBody(run[p].total, 0, 0)))
  /\ UNCHANGED <<catalog, blobs, now, overlap>>

\* ------------------------------------- directory variant (part_000)
\* bot events: a photo, a video, a document with its declared MIME type
BotEvents == {"photo", "video", "image/png", "video/mp4", "application/pdf"}

Prefix(e) == IF e \in {"video", "video/mp4"} THEN "vid" ELSE "img"

\* a file of the gallery directory
File(content, mtime) == [content |-> content, mtime |-> mtime]

DirNames == DOMAIN gallery
\* the directory with file n created, truncated or rewritten
WithFile(n, f) == [m \in DirNames \cup {n} |-> IF m = n THEN f ELSE gallery[m]]
\* the directory after unlink of n
WithoutFile(n) == [m \in DirNames \ {n} |-> gallery[m]]

\* lines 169-185: bot.on('photo' | 'video' | 'document') starts the save and
\* answers "synced to gallery" at once
BotMessage(p) ==
  /\ save[p].pc = "idle"
  /\ \A q \in Savers : q < p => save[q].pc # "idle"
  /\ \E e \in BotEvents :
       IF e = "application/pdf"
       THEN save' = [save EXCEPT ![p] = [NotSaving EXCEPT !.pc = "done",
                                                          !.outcome = "ignored"]]
       ELSE save' = [save EXCEPT ![p] = [NotSaving EXCEPT !.pc = "getFile",
                                                          !.prefix = Prefix(e),
                                                          !.replied = 1]]
  /\ UNCHANGED <<gallery, now>>
  /\ UNCHANGED serverless

\* lines 188-196: bot.getFile, then createWriteStream(filePath) and https.get
SGetFile(p) ==
  /\ save[p].pc = "getFile"
  /\ \E ok \in BOOLEAN :
       IF ok
       THEN LET n == <<save[p].prefix, now>>
            IN /\ gallery' = WithFile(n, File("empty", now))
               /\ save' = [save EXCEPT ![p] = [@ EXCEPT !.pc = "request",
                                                         !.fileName = n]]
       ELSE /\ save' = [save EXCEPT ![p] = [@ EXCEPT !.pc = "done",
                                                      !.outcome = "apiError"]]
            /\ UNCHANGED gallery
  /\ UNCHANGED now
  /\ UNCHANGED serverless

\* lines 196-205: the response arrives and is piped into the file whatever
\* its status, or the request fails and the partial file is unlinked
SRequest(p) ==
  /\ save[p].pc = "request"
  /\ \E out \in {200, 404, 0} :
       IF out # 0
       THEN /\ save' = [save EXCEPT ![p] = [@ EXCEPT !.pc = "stream", !.status = out]]
            /\ UNCHANGED gallery
       ELSE /\ save' = [save EXCEPT ![p] = [@ EXCEPT !.pc = "done",
                                                      !.outcome = "requestError"]]
            /\ gallery' = WithoutFile(save[p].fileName)
  /\ UNCHANGED now
  /\ UNCHANGED serverless

\* line 197: res.pipe(fileStream) writes a chunk of the body
SChunk(p) ==
  /\ save[p].pc = "stream"
  /\ save[p].fileName \in DirNames
  /\ gallery[save[p].fileName].content = "empty"
  /\ gallery' = WithFile(save[p].fileName, File("partial", now))
  /\ UNCHANGED <<save, now>>
  /\ UNCHANGED serverless

\* lines 198-201: 'finish'; the file holds the media, or the body of the
\* error response when the status was not 200
SFinish(p) ==
  /\ save[p].pc = "stream"
  /\ gallery' = IF save[p].fileName \in DirNames
                THEN WithFile(save[p].fileName,
                       File(IF save[p].status = 200 THEN "media" ELSE "errorBody", now))
                ELSE gallery    \* unlinked meanwhile: the bytes go to no name
  /\ save' = [save EXCEPT ![p] = [@ EXCEPT !.pc = "done", !.outcome = "finished"]]
  /\ UNCHANGED now
  /\ UNCHANGED serverless

\* the response stream breaks: no handler is registered for it (lines 196-205
\* handle the request's 'error' only), the file stays as written so far
SAbort(p) ==
  /\ save[p].pc = "stream"
  /\ save' = [save EXCEPT ![p] = [@ EXCEPT !.pc = "done", !.outcome = "streamError"]]
  /\ UNCHANGED <<gallery, now>>
  /\ UNCHANGED serverless

\* readdir order: by name
NameBefore(a, b) == a[2] < b[2] \/ (a[2] = b[2] /\ a[1] = "img" /\ b[1] = "vid")

RECURSIVE ReadDir(_)
ReadDir(names) ==
  IF names = {} THEN <<>>
  ELSE LET n == CHOOSE x \in names : \A y \in names \ {x} : NameBefore(x, y)
       IN <<n>> \o ReadDir(names \ {n})

\* lines 72-79: the record of one file
FileRecord(n) ==
  [url |-> n, filename |-> n,
   type |-> IF n[1] = "vid" THEN "video" ELSE "image",
   timestamp |-> gallery[n].mtime]

\* line 86: sort((a, b) => b.timestamp - a.timestamp), a stable sort
RECURSIVE InsertDesc(_, _)
InsertDesc(sorted, r) ==
  IF sorted = <<>> THEN <<r>>
  ELSE IF Head(sorted).timestamp >= r.timestamp
       THEN <<Head(sorted)>> \o InsertDesc(Tail(sorted), r)
       ELSE <<r>> \o sorted

RECURSIVE SortDesc(_)
SortDesc(recs) ==
  IF recs = <<>> THEN <<>>
  ELSE InsertDesc(SortDesc([i \in 1..(Len(recs) - 1) |-> recs[i]]), recs[Len(recs)])

\* lines 59-94: listing of the gallery directory
GalleryHistory ==
  SortDesc([i \in 1..Cardinality(DirNames) |-> FileRecord(ReadDir(DirNames)[i])])

\* app.get('/api/history'): readdir fails -> 500
GHistory(p) ==
  \E ok \in BOOLEAN :
    LET s == [Idle EXCEPT !.op = "galleryHistory",
                          !.req = Request("GET", "none", FALSE, "none", NoUrl, "none")]
    IN /\ IF ok THEN Set(p, Done(s, Listing(GalleryHistory)))
          ELSE Set(p, Done(s, Plain(500)))
       /\ UNCHANGED <<catalog, blobs, now, overlap>>

\* a file name that is not in the directory
MissingName == <<"img", -9>>

\* line 127: { success: true, message: 'File deleted' }
FileDeleted == Response(200, "true", NoUrl, Absent, Absent, <<>>)

\* (mutant) the event is emitted before the file is looked up
GDeleteEmitFirst(p) ==
  \E a \in {"right", "wrong"}, n \in DirNames \cup {MissingName}, ok \in BOOLEAN :
    /\ (a # "right" \/ n \notin DirNames) => ok
    /\ LET s == [Idle EXCEPT !.op = "galleryDelete",
                             !.req = Request("DELETE", "none", FALSE, "none", n, a)]
           e == [s EXCEPT !.emitted = <<n>>]
       IN IF a # "right"
          THEN run' = [run EXCEPT ![p] = Done(s, Plain(401))] /\ UNCHANGED gallery
          ELSE IF n \notin DirNames
          THEN run' = [run EXCEPT ![p] = Done(e, Plain(404))] /\ UNCHANGED gallery
          ELSE IF ~ok
          THEN /\ run' = [run EXCEPT ![p] =
                          Done([e EXCEPT !.blobDels = 1, !.failedAt = "unlink"], Plain(500))]
               /\ UNCHANGED gallery
          ELSE /\ gallery' = WithoutFile(n)
               /\ run' = [run EXCEPT ![p] = Done([e EXCEPT !.blobDels = 1], FileDeleted)]
    /\ UNCHANGED <<catalog, blobs, now, overlap, save>>

\* lines 47-54 and 112-132: app.delete('/api/media/:filename'); the handler
\* is synchronous: bearer check, existsSync, unlinkSync, io.emit, response
GDelete(p) ==
  \E a \in {"right", "wrong"}, n \in DirNames \cup {MissingName}, ok \in BOOLEAN :
    /\ (a # "right" \/ n \notin DirNames) => ok
    /\ LET s == [Idle EXCEPT !.op = "galleryDelete",
                             !.req = Request("DELETE", "none", FALSE, "none", n, a)]
       IN IF a # "right"
          THEN run' = [run EXCEPT ![p] = Done(s, Plain(401))] /\ UNCHANGED gallery
          ELSE IF n \notin DirNames
          THEN run' = [run EXCEPT ![p] = Done(s, Plain(404))] /\ UNCHANGED gallery
          ELSE IF ~ok
          THEN /\ run' = [run EXCEPT ![p] =
                          Done([s EXCEPT !.blobDels = 1, !.failedAt = "unlink"], Plain(500))]
               /\ UNCHANGED gallery
          ELSE /\ gallery' = WithoutFile(n)
               /\ run' = [run EXCEPT ![p] =
                          Done([s EXCEPT !.blobDels = 1, !.emitted = <<n>>], FileDeleted)]
    /\ UNCHANGED <<catalog, blobs, now, overlap, save>>

\* ---------------------------------------------------------- specification
Webhook(p) ==
  \/ WStart(p) \/ WSendStatus(p) \/ WGetFile(p) \/ WEdit1(p) \/ WDownload(p)
  \/ WEdit2(p) \/ WPut(p) \/ WLpush(p) \/ WEdit3(p) \/ WCatch(p)

Delete(p) ==
  \/ DStart(p) \/ DBlobDel(p) \/ DLrange(p) \/ DRedisDel(p) \/ DReinsert(p)

Stats(p) == StLlen(p) \/ StLrange(p)

SaveTelegramFile(p) ==
  \/ BotMessage(p) \/ SGetFile(p) \/ SRequest(p) \/ SChunk(p) \/ SFinish(p)
  \/ SAbort(p)

\* serverless variant: ingestion runs
NextIngest ==
  \/ Tick
  \/ \E p \in Writers : Webhook(p)
SpecIngest == Init /\ [][NextIngest]_vars

\* every pending call of a run eventually returns or throws, so a run that
\* can take a step eventually takes one
FairIngest == \A p \in Writers : WF_vars(Webhook(p))
SpecIngestFair == Init /\ [][NextIngest]_vars /\ FairIngest

\* serverless variant: deletions and readers
NextDelete ==
  \/ \E p \in Writers : Delete(p)
  \/ \E p \in Readers : HHistory(p)
SpecDelete == Init /\ [][NextDelete]_vars

\* serverless variant: deletions and readers on a catalog that holds an
\* unparsable item
SpecCorrupt == InitCorrupt /\ [][NextDelete]_vars

\* serverless variant: deletions and stats readers
NextStats ==
  \/ \E p \in Writers : Delete(p)
  \/ \E p \in Readers : Stats(p)
SpecStats == Init /\ [][NextStats]_vars

\* the other writer slot is not running handler op
OtherIsNot(p, op) == \A q \in Writers \ {p} : run[q].op # op

\* serverless variant: an ingestion and a deletion in either order of arrival,
\* and readers (two ingestions are SpecIngest, two deletions SpecDelete)
Next ==
  \/ Tick
  \/ \E p \in Writers : OtherIsNot(p, "webhook") /\ Webhook(p)
  \/ \E p \in Writers : OtherIsNot(p, "delete") /\ Delete(p)
  \/ \E p \in Readers : HHistory(p)
Spec == Init /\ [][Next]_vars

\* directory variant: bot events and readers
NextDir ==
  \/ Tick
  \/ \E p \in Savers : SaveTelegramFile(p)
  \/ \E p \in Readers : GHistory(p)
SpecDir == Init /\ [][NextDir]_vars

\* directory variant: bot events and deletions
NextDirDelete ==
  \/ Tick
  \/ \E p \in Savers : SaveTelegramFile(p)
  \/ \E p \in Readers : GDelete(p)
SpecDirDelete == Init /\ [][NextDirDelete]_vars

\* =================================================================== claims
RemoveAt(s, i) == [j \in 1..(Len(s) - 1) |-> IF j < i THEN s[j] ELSE s[j + 1]]

\* C1: an ingestion run that fails at metadata resolution, at download or at
\* the content-store put has pushed no record, and when no other writer ran
\* meanwhile the catalog is the catalog the run started with.
C1_FailedRunLeavesCatalog ==
  \A p \in Writers :
    (run[p].op = "webhook" /\ run[p].failedAt \in {"meta", "download", "put"})
      => /\ run[p].appended = 0
         /\ Alone(p) => catalog = run[p].startCat

C1_Witness ==
  \E p \in Writers :
    /\ run[p].op = "webhook" /\ run[p].pc = "done" /\ Alone(p)
    /\ run[p].failedAt = "put" /\ run[p].resp = Failure

\* C2: every POST event that carries a message is answered with HTTP 200,
\* whichever internal step failed.
C2_AlwaysAcknowledged ==
  \A p \in Writers :
    (run[p].op = "webhook" /\ run[p].pc = "done"
       /\ run[p].req.method = "POST" /\ run[p].req.kind # "none")
      => run[p].resp.status = 200

\* C3: after a run that answered success:true with no other writer running,
\* the listing holds exactly one record more than before, and that record's
\* url is the url returned by the put of this run.
C3_SuccessAddsOneRecord ==
  \A p \in Writers :
    (run[p].op = "webhook" /\ run[p].pc = "done" /\ run[p].resp.success = "true"
       /\ Alone(p))
      => LET before == ParsedHistory(run[p].startCat)
             after == ParsedHistory(catalog)
         IN /\ Len(after) = Len(before) + 1
            /\ \E i \in 1..Len(after) :
                 /\ after[i].url = run[p].resp.url
                 /\ RemoveAt(after, i) = before
            /\ run[p].resp.url \in blobs

C3_Witness ==
  \E p \in Writers :
    /\ run[p].op = "webhook" /\ run[p].pc = "done" /\ Alone(p)
    /\ run[p].resp.success = "true" /\ run[p].sent = 1

\* no record of the run is listed before its content-store write completed
SaveListedOnlyWhenWritten(p) ==
  (save[p].fileName # NoName
     /\ \E i \in 1..Len(GalleryHistory) : GalleryHistory[i].filename = save[p].fileName)
    => save[p].outcome = "finished"

\* C4: before its append a run changes nothing readers see, and the append
\* happens only after the content-store write completed successfully.
C4_AppendAfterStoreWrite ==
  /\ \A p \in Writers :
       (run[p].op = "webhook" /\ Alone(p)
          /\ run[p].pc \in {"sendStatus", "getFile", "edit1", "download", "edit2", "put"})
         => ParsedHistory(catalog) = ParsedHistory(run[p].startCat)
  /\ \A p \in Writers :
       (run[p].op = "webhook" /\ run[p].appended > 0)
         => run[p].stored > 0
  /\ \A p \in Savers : SaveListedOnlyWhenWritten(p)

\* C5: no two records of the catalog have the same url.
C5_UrlsUnique ==
  \A i, j \in 1..Len(catalog) :
    (i # j /\ Parses(catalog[i]) /\ Parses(catalog[j]))
      => Parse(catalog[i]).url # Parse(catalog[j]).url

SortedDesc(items) ==
  \A i \in 1..(Len(items) - 1) : items[i].timestamp >= items[i + 1].timestamp

\* C6: every array returned by listHistory() is sorted by timestamp descending.
C6_ListingSorted ==
  \A r \in Readers :
    (run[r].op = "history" /\ run[r].pc = "done" /\ run[r].resp.status = 200)
      => SortedDesc(run[r].resp.items)

DeletedOk(p) ==
  /\ run[p].op = "delete" /\ run[p].pc = "done"
  /\ run[p].resp.status = 200 /\ run[p].resp.success = "true"

\* C7: two deletions of different urls, however their steps interleave, leave
\* the catalog that running them one after the other leaves.
C7_DeletionsSerializable ==
  ((\A p \in Writers : DeletedOk(p)) /\ run[1].req.url # run[2].req.url)
    => catalog = UpdatedHistory(UpdatedHistory(run[1].startCat, run[1].req.url),
                                run[2].req.url)

\* C8: deleting the same url twice in sequence, from a catalog holding exactly
\* one record with that url, answers success with removed=1 and then success
\* with removed=0.
C8_DeleteTwice ==
  (/\ \A p \in Writers : run[p].op = "delete" /\ run[p].pc = "done"
                         /\ run[p].resp.status = 200
   /\ After(1, 2)
   /\ run[1].req.url = run[2].req.url
   /\ Clean(run[1].startCat)
   /\ Matches(run[1].startCat, run[1].req.url) = 1)
    => /\ run[1].resp.success = "true" /\ run[1].resp.removed = 1
       /\ run[2].resp.success = "true" /\ run[2].resp.removed = 0

\* C9: an authorized deletion of a url that no record has issues no catalog
\* write, leaves the catalog unchanged and answers {success:true, removed:0}.
C9_AbsentUrlNoWrite ==
  \A p \in Writers :
    (/\ run[p].op = "delete" /\ run[p].pc = "done" /\ run[p].resp.status = 200
     /\ Alone(p)
     /\ Clean(run[p].startCat)
     /\ Matches(run[p].startCat, run[p].req.url) = 0)
      => /\ run[p].writes = 0
         /\ catalog = run[p].startCat
         /\ run[p].resp.success = "true" /\ run[p].resp.removed = 0

\* C10: a deletion request without the exact shared secret is answered
\* Unauthorized whatever else it contains, and deletes no object and writes
\* nothing to the catalog.
C10_NoSecretUnauthorized ==
  \A p \in Writers :
    (/\ run[p].op = "delete" /\ run[p].pc = "done"
     /\ run[p].req.method = "POST" /\ run[p].req.auth # "right")
      => /\ run[p].resp.status = 401
         /\ run[p].blobDels = 0 /\ run[p].writes = 0

\* C11: an authorized deletion whose content-store del failed, whose catalog
\* calls succeeded and which ran with no other writer, has removed every
\* record with the requested url and answered success.
C11_BlobFailureStillCleans ==
  \A p \in Writers :
    (run[p].op = "delete" /\ run[p].pc = "done" /\ run[p].failedAt = "blob"
       /\ Alone(p))
      => /\ Matches(catalog, run[p].req.url) = 0
         /\ run[p].resp.status = 200 /\ run[p].resp.success = "true"

C11_Witness ==
  \E p \in Writers :
    /\ run[p].op = "delete" /\ run[p].pc = "done" /\ run[p].failedAt = "blob"
    /\ Alone(p)
    /\ Matches(run[p].startCat, run[p].req.url) = 1
    /\ run[p].req.url \in blobs
    /\ run[p].resp.removed = 1

\* the records of cat whose url differs from url, in the order of cat
RECURSIVE Others(_, _)
Others(cat, url) ==
  IF cat = <<>> THEN <<>>
  ELSE IF Parses(Head(cat)) /\ Parse(Head(cat)).url = url
       THEN Others(Tail(cat), url)
       ELSE <<Head(cat)>> \o Others(Tail(cat), url)

\* C12: after an authorized deletion of url that answered success and ran
\* with no other writer, no record of the catalog has that url and the
\* catalog is the former catalog without those records: every other record
\* is there, unchanged and in the same relative order.
C12_DeletionFrame ==
  \A p \in Writers :
    (DeletedOk(p) /\ Alone(p))
      => /\ Matches(catalog, run[p].req.url) = 0
         /\ catalog = Others(run[p].startCat, run[p].req.url)

C12_Witness ==
  \E p \in Writers :
    /\ DeletedOk(p) /\ Alone(p)
    /\ run[p].resp.removed = 1 /\ run[p].resp.remaining = 2
    /\ Len(catalog) = 2
    /\ Parse(catalog[1]).timestamp > Parse(catalog[2]).timestamp

\* C13: whenever no deletion is in progress and no step of a deletion has
\* failed, every record of the catalog has its object in the content store.
C13_RecordsHaveObjects ==
  (\A p \in Writers : ~(run[p].op = "delete" /\ Running(p))
                         /\ (run[p].op = "delete" => run[p].failedAt = "none"))
    => \A i \in 1..Len(catalog) :
         Parses(catalog[i]) => Parse(catalog[i]).url \in blobs

\* C14: on a catalog whose records all have type image or video, every stats
\* response has images + videos = totalFiles.
C14_StatsCountsAddUp ==
  \A r \in Readers :
    (run[r].op = "stats" /\ run[r].pc = "done" /\ run[r].resp.status = 200)
      => run[r].resp.stats.images + run[r].resp.stats.videos
           = run[r].resp.stats.totalFiles

\* C15: downloadFileContent starts at most maxRetries (3) attempts, starts
\* none after an attempt returned a response, and when the third attempt
\* fails the error it throws is the cause of that last failed attempt.
C15_DownloadAttempts ==
  \A p \in Writers :
    run[p].op = "webhook"
      => /\ run[p].attempt <= maxRetries /\ run[p].fetched <= 1
         /\ run[p].pc = "download" => (run[p].attempt >= 1 /\ run[p].fetched = 0)
         /\ run[p].fetched = 1 => run[p].pc \in {"edit2", "put", "lpush", "edit3", "catch"}
         /\ (run[p].pc = "catch" /\ run[p].failedAt = "download")
              => /\ run[p].attempt = maxRetries /\ run[p].fetched = 0
                 /\ run[p].lastCause \in Causes
                 /\ run[p].error = run[p].lastCause

C15_Witness ==
  \E p \in Writers :
    /\ run[p].op = "webhook" /\ run[p].pc = "catch"
    /\ run[p].failedAt = "download" /\ run[p].attempt = maxRetries
    /\ run[p].error = "network"

\* C16: getTelegramFile is called exactly once for an event that carries a
\* photo or a video; when it fails the run fails without a second call, with
\* no download attempt, no content-store write and no catalog append.
C16_MetadataOnce ==
  \A p \in Writers :
    run[p].op = "webhook"
      => /\ run[p].metaCalls <= 1
         /\ (run[p].req.kind \in {"photo", "video"}
               /\ run[p].pc \notin {"sendStatus", "getFile"}) => run[p].metaCalls = 1
         /\ run[p].failedAt = "meta"
              => /\ run[p].metaCalls = 1
                 /\ run[p].pc \in {"catch", "done"}
                 /\ run[p].attempt = 0 /\ run[p].fetched = 0
                 /\ run[p].stored = 0 /\ run[p].appended = 0
                 /\ run[p].pc = "done" => run[p].resp.success # "true"

C16_Witness ==
  \E p \in Writers :
    /\ run[p].op = "webhook" /\ run[p].pc = "done" /\ run[p].failedAt = "meta"
    /\ run[p].resp = Failure /\ run[p].metaCalls = 1

\* C17: a run creates at most one status message: at most one sendMessage
\* call of the run is delivered, on every path.
C17_OneStatusMessage ==
  \A p \in Writers : run[p].op = "webhook" => run[p].sent <= 1

\* C18: a run whose metadata call, download, put and append all succeeded
\* answers success:true, whichever status send or edit calls failed.
C18_NotifierDoesNotGate ==
  \A p \in Writers :
    (run[p].op = "webhook" /\ run[p].pc = "done"
       /\ run[p].metaCalls = 1 /\ run[p].stored > 0 /\ run[p].appended > 0)
      => (run[p].resp.status = 200 /\ run[p].resp.success = "true")

\* a declared MIME type that starts with image/ or video/
MediaMime(mime) == mime # NoMime /\ mime[1] \in {"image", "video"}

\* the message of the request carries a photo, a video, or a document
\* declared as an image or a video
Recognizable(req) ==
  \/ req.kind \in {"photo", "video"}
  \/ req.kind = "document" /\ MediaMime(req.mime)

\* C19: a POST event whose message carries no recognizable media is answered
\* 200 at once: no status message, no metadata call, no download attempt, no
\* content-store write, no catalog command.
C19_NonMediaIgnored ==
  \A p \in Writers :
    (run[p].op = "webhook" /\ run[p].req.method = "POST"
       /\ run[p].req.kind # "none" /\ ~Recognizable(run[p].req))
      => /\ run[p].pc = "done" /\ run[p].resp = Plain(200)
         /\ run[p].sent = 0 /\ run[p].metaCalls = 0 /\ run[p].attempt = 0
         /\ run[p].stored = 0 /\ run[p].appended = 0 /\ run[p].writes = 0
         /\ Alone(p) => catalog = run[p].startCat

C19_Witness ==
  \E p \in Writers :
    /\ run[p].op = "webhook" /\ run[p].pc = "done" /\ Alone(p)
    /\ run[p].req.kind = "document" /\ run[p].req.mime = <<"application", "pdf">>
    /\ run[p].resp = Plain(200)

\* C20: an event whose only media is a document declared as an image or a
\* video passes input validation and is ingested: it is not answered by the
\* no-op acknowledgement.
C20_MediaDocumentAccepted ==
  \A p \in Writers :
    (run[p].op = "webhook" /\ run[p].req.method = "POST"
       /\ run[p].req.kind = "document" /\ MediaMime(run[p].req.mime)
       /\ run[p].pc = "done")
      => run[p].metaCalls = 1

\* the catalog-store calls of the direct catalog operations
CatalogCalls == {"read", "clear", "reinsert", "llen", "lrange"}

\* C21: a history listing, a stats request or a deletion in which a
\* catalog-store call failed answers with a server error, never with a
\* success status.
C21_CatalogFailureIsServerError ==
  \A p \in Procs :
    (run[p].op \in {"history", "stats", "delete"} /\ run[p].pc = "done"
       /\ run[p].failedAt \in CatalogCalls)
      => run[p].resp.status >= 500

\* the records of cat with the given url
RecordsOf(cat, url) ==
  {Parse(cat[i]) : i \in {j \in 1..Len(cat) : Parses(cat[j]) /\ Parse(cat[j]).url = url}}

\* C22: two ingestion runs for two different source files that overlap, and
\* in which no call throws, both answer success:true; the catalog then holds
\* the former records and one record of each run, with distinct urls and
\* distinct filenames.
C22_ConcurrentIngestions ==
  (/\ \A p \in Writers : /\ run[p].op = "webhook" /\ run[p].pc = "done"
                          /\ run[p].req.kind \in {"photo", "video"}
                          /\ run[p].failedAt = "none"
   /\ overlap
   /\ run[1].req.file # run[2].req.file)
    => /\ \A p \in Writers : run[p].resp.status = 200 /\ run[p].resp.success = "true"
       /\ run[1].resp.url # run[2].resp.url
       /\ \A p \in Writers : Matches(catalog, run[p].resp.url) = 1
       /\ \A r1 \in RecordsOf(catalog, run[1].resp.url),
             r2 \in RecordsOf(catalog, run[2].resp.url) : r1.filename # r2.filename
       /\ Others(Others(catalog, run[1].resp.url), run[2].resp.url) = run[1].startCat

C22_Witness ==
  /\ \A p \in Writers : /\ run[p].op = "webhook" /\ run[p].pc = "done"
                         /\ run[p].resp.success = "true"
  /\ overlap
  /\ run[1].req.file # run[2].req.file
  /\ run[1].resp.url[1] = run[2].resp.url[1]
  /\ Len(catalog) = Len(run[1].startCat) + 2

\* the status edits of a webhook run are issued in pipeline order
EditsInOrder(p) ==
  /\ run[p].pc = "edit1" => (run[p].metaCalls = 1 /\ run[p].fetched = 0)
  /\ run[p].pc = "edit2" => (run[p].fetched = 1 /\ run[p].stored = 0)
  /\ run[p].pc = "edit3" => (run[p].stored = 1 /\ run[p].appended = 1)

\* C23: the status texts follow the pipeline, and the terminal success
\* message of a run is emitted only after its content was stored and its
\* record cataloged, never while the download or the store write is pending
\* or after it failed.
C23_SuccessMessageLast ==
  /\ \A p \in Writers : run[p].op = "webhook" => EditsInOrder(p)
  /\ \A p \in Savers : save[p].replied > 0 => save[p].outcome = "finished"

C25_DeletionCounts ==
  \A p \in Writers :
    (DeletedOk(p) /\ Alone(p) /\ run[p].resp.removed # Absent)
      => /\ run[p].resp.removed = Matches(run[p].startCat, run[p].req.url)
         /\ run[p].resp.remaining = Len(catalog)

\* delays that never decrease and never exceed 5000 ms
BoundedBackoff(w) ==
  \A i \in 1..Len(w) : w[i] <= 5000 /\ (i > 1 => w[i] >= w[i - 1])

\* C26: downloadFileContent sleeps after each failed attempt except the last
\* one; the delays never decrease and none exceeds 5000 ms, under the linear
\* policy and under the capped exponential policy.
C26_BackoffDelays ==
  \A p \in Writers :
    run[p].op = "webhook"
      => /\ run[p].pc = "download" => Len(run[p].waits) = run[p].attempt - 1
         /\ (run[p].pc = "catch" /\ run[p].failedAt = "download")
              => Len(run[p].waits) = maxRetries - 1
         /\ Len(run[p].waitsCapped) = Len(run[p].waits)
         /\ BoundedBackoff(run[p].waits)
         /\ BoundedBackoff(run[p].waitsCapped)

C26_Witness ==
  \E p \in Writers :
    /\ run[p].op = "webhook" /\ run[p].pc = "catch" /\ run[p].failedAt = "download"
    /\ run[p].waits = <<1000, 2000>>
    /\ run[p].waitsCapped = <<2000, 4000>>

\* C27: every ingestion run eventually ends by sending its response, after at
\* most one metadata call, at most maxRetries download attempts, at most one
\* content-store put and at most one catalog append.
C27_IngestionTerminates ==
  /\ [](\A p \in Writers :
         run[p].op = "webhook"
           => /\ run[p].metaCalls <= 1 /\ run[p].attempt <= maxRetries
              /\ run[p].stored <= 1 /\ run[p].appended <= 1)
  /\ \A p \in Writers :
       (run[p].op = "webhook") ~> (run[p].pc = "done" /\ run[p].resp # NoResp)

\* C28: a record appended by an ingestion run while a deletion of another url
\* was between its catalog read and its catalog rewrite is in the catalog,
\* exactly once, after the deletion completed.
C28_AppendSurvivesDeletion ==
  \A p \in Writers, q \in Writers :
    (/\ DeletedOk(p)
     /\ run[q].op = "webhook" /\ run[q].pc = "done" /\ run[q].midDelete
     /\ run[q].resp.success = "true"
     /\ run[q].resp.url # run[p].req.url)
      => Matches(catalog, run[q].resp.url) = 1

\* C29: a deletion that ended with an error at a catalog-store call, with no
\* other writer running, removed no record whose url differs from the
\* requested url.
C29_FailedDeletionKeepsOthers ==
  \A p \in Writers :
    (/\ run[p].op = "delete" /\ run[p].pc = "done" /\ Alone(p)
     /\ run[p].resp.status = 500
     /\ run[p].failedAt \in {"read", "clear", "reinsert"})
      => \A i \in 1..Len(run[p].startCat) :
           (Parses(run[p].startCat[i])
              /\ Parse(run[p].startCat[i]).url # run[p].req.url)
             => run[p].startCat[i] \in Range(catalog)

\* C30: whenever an ingestion run has reported failure, by its response or
\* by the error text sent to the chat, the catalog holds no record appended
\* by that run.
C30_FailureReportMeansNoRecord ==
  \A p \in Writers :
    (run[p].op = "webhook" /\ run[p].pc = "done" /\ run[p].resp = Failure)
      => /\ run[p].appended = 0
         /\ Alone(p) => catalog = run[p].startCat

\* the download of a save ended in failure: the request failed, the response
\* stream broke, or the response carried a non-success status
DownloadFailed(p) ==
  /\ save[p].pc = "done"
  /\ \/ save[p].outcome \in {"requestError", "streamError"}
     \/ save[p].outcome = "finished" /\ save[p].status # 200

\* C31: after saveTelegramFile ended with a download failure, no file of
\* that event is left in the gallery directory.
C31_NoFileAfterDownloadFailure ==
  \A p \in Savers :
    (DownloadFailed(p)
       /\ \A q \in Savers \ {p} : save[q].fileName # save[p].fileName)
      => save[p].fileName \notin DirNames
====
